---- MODULE Spec2Model ----
(***************************************************************************)
(* Secure-aggregation federated-learning round protocol.                   *)
(*                                                                         *)
(* Sources: backend/fl_server/server.py (SecureAggregationStrategy, main), *)
(* backend/encryption_service.py (get_context, get_public_context) and     *)
(* fl-node/src/client.py (EncryptedClient).                                *)
(*                                                                         *)
(* Numbers.  Losses are held in hundredths (0.1 is 10, 10.0 is 1000), so   *)
(* that mean, standard deviation and z-score are decided exactly in        *)
(* integers.  A weight is an integer; a decrypted aggregate is the exact   *)
(* fraction [num, den] the homomorphic arithmetic computes (CKKS noise is  *)
(* left out).                                                              *)
(***************************************************************************)
EXTENDS Integers, Sequences, FiniteSets, TLC

\* ------------------------------------------------------------------ bounds
\* Longest results list given to detect_outliers with the full loss domain.
MaxShort == 4
\* Longest results list given to detect_outliers with the two-valued loss domain.
MaxLong == 9
\* Longest results list given to aggregate_fit with the full result domain.
MaxAggClients == 3
\* Largest example count a fit result reports.
MaxExamples == 2
\* Number of client processes that can join the session.
NumClients == 2
\* Longest results list given to aggregate_evaluate.
MaxEvalClients == 2
\* Largest number of rows aggregate_evaluate is let to add to fl_round_metrics.
MaxRows == 2

\* ------------------------------------------------------- program constants
\* threshold = 2.5, as the fraction ThresholdNum / ThresholdDen.
ThresholdNum == 5
ThresholdDen == 2

\* ----------------------------------------------------------------- helpers
RECURSIVE SumSeq(_)
SumSeq(s) == IF s = <<>> THEN 0 ELSE Head(s) + SumSeq(Tail(s))

\* An empty metrics dict.
NoMetrics == <<>>

\* ------------------------------------------------------- detect_outliers
\* losses = [fit_res.metrics["loss"] for _, fit_res in results if "loss" in fit_res.metrics]
RECURSIVE losses_of(_)
losses_of(results) ==
    IF results = <<>> THEN <<>>
    ELSE LET fit_res == Head(results).fit_res
         IN  (IF "loss" \in DOMAIN fit_res.metrics
                 THEN <<fit_res.metrics.loss>> ELSE <<>>)
             \o losses_of(Tail(results))

\* n^2 times the population variance of xs (np.std and stats.zscore both use
\* ddof = 0): n * sum(x^2) - sum(x)^2.
var_n2(xs) ==
    Len(xs) * SumSeq([i \in 1..Len(xs) |-> xs[i] * xs[i]]) - SumSeq(xs) * SumSeq(xs)

\* np.std(losses) == 0
std_is_zero(xs) == var_n2(xs) = 0

(* A variant of zscore_exceeds with the threshold 2 in place of 2.5.          *)
zscore_exceeds_at_two(xs, i) ==
    LET d == Len(xs) * xs[i] - SumSeq(xs)
    IN  d * d > 4 * var_n2(xs)

\* np.abs(stats.zscore(losses))[i] > threshold, for a non-zero deviation:
\* |x_i - mean| / std > num/den, squared and multiplied out by n^2 * den^2.
zscore_exceeds(xs, i) ==
    LET d == Len(xs) * xs[i] - SumSeq(xs)
    IN  ThresholdDen * ThresholdDen * d * d > ThresholdNum * ThresholdNum * var_n2(xs)

(* A variant of outlier_indices_of that takes every index for an outlier.    *)
outlier_indices_all(xs) == [i \in 1..Len(xs) |-> i]

\* The indices i (in increasing order) with z > threshold.
outlier_indices_of(xs) ==
    SelectSeq([i \in 1..Len(xs) |-> i], LAMBDA i : zscore_exceeds(xs, i))

(* A variant of detect_outliers_run that omits the zero-deviation guard. *)
detect_outliers_run_noguard(results) ==
    LET losses == losses_of(results)
    IN  IF Len(losses) < 2
        THEN [ret |-> <<>>, zero_div |-> FALSE]
        ELSE LET outlier_indices == outlier_indices_of(losses)
             IN  [ret |-> [k \in 1..Len(outlier_indices) |->
                              results[outlier_indices[k]].client],
                  zero_div |-> std_is_zero(losses)]

\* detect_outliers: ret is the returned list of client proxies; zero_div says
\* whether stats.zscore was reached with a zero standard deviation.
detect_outliers_run(results) ==
    LET losses == losses_of(results)
    IN  IF Len(losses) < 2
        THEN [ret |-> <<>>, zero_div |-> FALSE]
        ELSE IF std_is_zero(losses)
        THEN [ret |-> <<>>, zero_div |-> FALSE]
        ELSE LET outlier_indices == outlier_indices_of(losses)
             IN  [ret |-> [k \in 1..Len(outlier_indices) |->
                              results[outlier_indices[k]].client],
                  zero_div |-> std_is_zero(losses)]

detect_outliers(results) == detect_outliers_run(results).ret

\* ------------------------------------------------------------ data shapes
\* Shape class of each tensor of net.state_dict(), in its key order: a weight
\* matrix, and the weight and bias vectors of a normalisation layer, which
\* have the same length.
model_shapes == <<"2d", "1d", "1d">>
\* Number of tensors of the model's state_dict.
NumTensors == Len(model_shapes)

\* Python's None, where a Parameters object is expected.
None == [tensors |-> <<>>, tensor_type |-> "None"]
\* No file on disk under a name.
NoFile == <<>>

RECURSIVE GCD(_, _)
GCD(a, b) == IF b = 0 THEN a ELSE GCD(b, a % b)

\* The number a / b (b > 0, a >= 0), as a reduced fraction.
Frac(a, b) == LET g == GCD(a, b) IN [num |-> a \div g, den |-> b \div g]
\* What decrypting yields when the ciphertext was not produced under the
\* decrypting context's key pair: numbers unrelated to any plaintext.
Garbage == [num |-> 0, den |-> 0]

\* A plaintext tensor (numpy.ndarray) of value v and shape class sh.
NdArray(v, sh) == [kind |-> "ndarray", key |-> 0, val |-> v, shape |-> sh, owner |-> 0]
\* A serialized CKKS vector: val flattened and encrypted under key pair k by
\* client c (owner and name are ghost fields: whose contribution it is, and
\* the place in state_dict key order of the tensor it holds; the bytes carry
\* neither).
Ciphertext(k, v, c, name) ==
    [kind |-> "ckks", key |-> k, val |-> v, shape |-> "1d", owner |-> c, name |-> name]

\* ------------------------------------------------ homomorphic arithmetic
\* ts.ckks_vector_from(context, tensor): the ciphertext as a CKKSVector linked
\* to the server context.  keys: the key pairs its parts were encrypted under;
\* src: the clients whose contributions it holds; mean: divided by the total.
ckks_vector_from(tensor) ==
    [keys |-> {tensor.key}, num |-> tensor.val, den |-> 1,
     src |-> {tensor.owner}, mean |-> FALSE]

\* w * num_examples (ciphertext-scalar multiplication).
ct_mul(w, n) == [w EXCEPT !.num = w.num * n]
\* a += b (ciphertext addition).
ct_add(a, b) ==
    [keys |-> a.keys \cup b.keys, num |-> a.num + b.num, den |-> a.den,
     src |-> a.src \cup b.src, mean |-> FALSE]
\* w / total_examples.
ct_div(w, total) == [w EXCEPT !.den = w.den * total, !.mean = TRUE]
\* w.decrypt() with the secret key of context: the plaintext if every part of w
\* was encrypted under that context's key pair.
decrypt(context, w) ==
    IF w.keys = {context} THEN Frac(w.num, w.den) ELSE Garbage

\* -------------------------------------------------- SecureAggregationStrategy
\* num_rounds = 3 in main(), passed to the strategy and to ServerConfig.
num_rounds == 3
\* config = {"epochs": 3}
Epochs == 3

(* A variant of is_final_round that takes every round up to num_rounds for   *)
(* the final one.                                                           *)
is_final_round_upto(server_round) == server_round <= num_rounds

\* if server_round == self.num_rounds
is_final_round(server_round) == server_round = num_rounds

\* fl.common.ndarrays_to_parameters(ndarrays)
ndarrays_to_parameters(ndarrays) ==
    [tensors |-> ndarrays, tensor_type |-> "numpy.ndarray"]

\* What one call of a strategy method did.  raised: an exception left the
\* method; parameters, metrics: the returned pair (aggregate_fit); decrypted:
\* for each decrypt() call, whose contributions the ciphertext held and
\* whether it was the divided accumulator; weights_file: the state_dict that
\* torch.save wrote, or NoFile; dvc_metrics, dvc_params: whether the two DVC
\* files were written; model_version: the row crud created, or <<>>;
\* rolled_back: db.rollback() ran.
Returned(parameters) ==
    [raised |-> FALSE, parameters |-> parameters, metrics |-> NoMetrics,
     decrypted |-> {}, weights_file |-> NoFile, dvc_metrics |-> FALSE,
     dvc_params |-> FALSE, model_version |-> <<>>, rolled_back |-> FALSE]
Raised == [Returned(None) EXCEPT !.raised = TRUE]

\* filtered_results: the results whose client proxy is not in outlier_clients.
filter_results(results, outlier_clients) ==
    SelectSeq(results,
              LAMBDA r : \A k \in 1..Len(outlier_clients) : outlier_clients[k] # r.client)

\* ts.ckks_vector_from raises on bytes that are no serialized CKKS vector.
deserializes(fit_res) ==
    \A j \in 1..Len(fit_res.parameters.tensors) :
        fit_res.parameters.tensors[j].kind = "ckks"

\* aggregated_weights_encrypted[j] after the loop has handled
\* filtered_results[1..i] (1-based): the first client's tensor times its
\* example count, then each later client's tensor j times its count added.
RECURSIVE accumulated(_, _, _)
accumulated(filtered_results, i, j) ==
    LET fit_res == filtered_results[i].fit_res
        scaled == ct_mul(ckks_vector_from(fit_res.parameters.tensors[j]),
                         fit_res.num_examples)
    IN  IF i = 1 THEN scaled
        ELSE ct_add(accumulated(filtered_results, i - 1, j), scaled)

\* aggregated_weights_encrypted after the loop over filtered_results[1..i]:
\* as many tensors as the first client sent.
weighted_sum(filtered_results, i) ==
    [j \in 1..Len(filtered_results[1].fit_res.parameters.tensors) |->
        accumulated(filtered_results, i, j)]

\* total_examples = sum([fit_res.num_examples for _, fit_res in filtered_results])
total_examples_of(filtered_results) ==
    SumSeq([i \in 1..Len(filtered_results) |-> filtered_results[i].fit_res.num_examples])

\* The statements between the filtering and the decryption raise: a tensor
\* that does not deserialize, client_encrypted_weights[j] past the end of a
\* shorter update (IndexError), or a division by total_examples = 0.
aggregation_raises(filtered_results) ==
    \/ \E i \in 1..Len(filtered_results) : ~deserializes(filtered_results[i].fit_res)
    \/ \E i \in 2..Len(filtered_results) :
          Len(filtered_results[i].fit_res.parameters.tensors)
              < Len(filtered_results[1].fit_res.parameters.tensors)
    \/ /\ total_examples_of(filtered_results) = 0
       /\ Len(filtered_results[1].fit_res.parameters.tensors) > 0

\* crud.model_version.create(db, obj_in=...): crud.model_version is the module
\* backend.crud.model_version (crud/__init__.py imports the submodules), whose
\* CRUD object is its attribute model_version; the module itself has no
\* attribute create, so the lookup raises AttributeError and no row is added.
crud_model_version_create(obj_in) ==
    [raised |-> TRUE, row |-> <<>>]

\* The schemas.ModelVersionCreate the final round builds: the accuracy and
\* loss of the first fl_round_metrics row of the round, 0.0 when there is none.
ModelVersionCreate(server_round, metrics_table) ==
    LET matching == SelectSeq(metrics_table, LAMBDA m : m.round_number = server_round)
        last_metric == IF matching = <<>> THEN <<>> ELSE <<Head(matching)>>
    IN  [version_number |-> server_round,
         avg_accuracy |-> IF last_metric = <<>> THEN 0 ELSE last_metric[1].avg_accuracy,
         avg_loss |-> IF last_metric = <<>> THEN 0 ELSE last_metric[1].avg_loss,
         file_path |-> server_round]

\* The final-round branch of aggregate_fit.  io_fail names the first file
\* operation that raises ("none": all succeed).
save_final_model(server_round, aggregated_ndarrays, metrics_table, io_fail) ==
    LET \* zip(net.state_dict().keys(), aggregated_ndarrays)
        state_dict ==
            [j \in 1..(IF Len(aggregated_ndarrays) < NumTensors
                          THEN Len(aggregated_ndarrays) ELSE NumTensors) |->
                aggregated_ndarrays[j]]
        model_version_create == ModelVersionCreate(server_round, metrics_table)
        created == crud_model_version_create(model_version_create)
    IN  [weights_file |-> IF io_fail = "save" THEN NoFile ELSE <<state_dict>>,
         dvc_metrics |-> io_fail \notin {"save", "dvc_metrics"},
         dvc_params |-> io_fail = "none",
         model_version |-> IF io_fail = "none" /\ ~created.raised
                              THEN <<created.row>> ELSE <<>>,
         rolled_back |-> io_fail = "none" /\ created.raised]

(* A variant of aggregate_decrypt that also decrypts the first client's     *)
(* own ciphertexts (as a debugging print of an update would).               *)
aggregate_decrypt_first(context, filtered_results) ==
    LET total_examples == total_examples_of(filtered_results)
        summed == weighted_sum(filtered_results, Len(filtered_results))
        aggregated_weights_encrypted ==
            [j \in 1..Len(summed) |-> ct_div(summed[j], total_examples)]
        first == weighted_sum(filtered_results, 1)
    IN  [ndarrays |-> [j \in 1..Len(summed) |->
                          NdArray(decrypt(context, aggregated_weights_encrypted[j]), "1d")],
         decrypted |-> {[src |-> w.src, mean |-> w.mean] :
                           w \in {aggregated_weights_encrypted[j] : j \in 1..Len(summed)}
                                 \cup {first[j] : j \in 1..Len(first)}}]

(* A variant of aggregate_decrypt that divides by the number of clients     *)
(* instead of the total example count.                                      *)
aggregate_decrypt_by_count(context, filtered_results) ==
    LET summed == weighted_sum(filtered_results, Len(filtered_results))
        aggregated_weights_encrypted ==
            [j \in 1..Len(summed) |-> ct_div(summed[j], Len(filtered_results))]
    IN  [ndarrays |-> [j \in 1..Len(summed) |->
                          NdArray(decrypt(context, aggregated_weights_encrypted[j]), "1d")],
         decrypted |-> {[src |-> w.src, mean |-> w.mean] :
                           w \in {aggregated_weights_encrypted[j] : j \in 1..Len(summed)}}]

\* Lines 244-274: the weighted sum, its division by total_examples, and the
\* decryption of the result.  decrypted logs every decrypt() call.
aggregate_decrypt(context, filtered_results) ==
    LET total_examples == total_examples_of(filtered_results)
        summed == weighted_sum(filtered_results, Len(filtered_results))
        aggregated_weights_encrypted ==
            [j \in 1..Len(summed) |-> ct_div(summed[j], total_examples)]
    IN  [ndarrays |-> [j \in 1..Len(summed) |->
                          NdArray(decrypt(context, aggregated_weights_encrypted[j]), "1d")],
         decrypted |-> {[src |-> w.src, mean |-> w.mean] :
                           w \in {aggregated_weights_encrypted[j] : j \in 1..Len(summed)}}]

\* aggregate_fit past its first check (lines 219-356), for non-empty results.
aggregate_fit_nonempty(context, server_round, results, failures, metrics_table, io_fail) ==
    \* [f.client_proxy for f in failures]: a failure is a (ClientProxy, FitRes)
    \* tuple or an exception, neither has the attribute client_proxy.
    IF failures # <<>> THEN Raised
    ELSE LET outlier_clients == detect_outliers(results)
             filtered_results == filter_results(results, outlier_clients)
         IN  IF filtered_results = <<>> THEN Returned(None)
             ELSE IF aggregation_raises(filtered_results) THEN Raised
             ELSE LET agg == aggregate_decrypt(context, filtered_results)
                      saved == save_final_model(server_round, agg.ndarrays,
                                                metrics_table, io_fail)
                      r == [Returned(ndarrays_to_parameters(agg.ndarrays)) EXCEPT
                               !.decrypted = agg.decrypted]
                  IN  IF is_final_round(server_round)
                      THEN [r EXCEPT !.weights_file = saved.weights_file,
                                     !.dvc_metrics = saved.dvc_metrics,
                                     !.dvc_params = saved.dvc_params,
                                     !.model_version = saved.model_version,
                                     !.rolled_back = saved.rolled_back]
                      ELSE r

(* A variant of aggregate_fit that has no early return and, on the final    *)
(* round, saves whatever it aggregated, an empty state_dict included.       *)
aggregate_fit_save_empty(context, server_round, results, failures, metrics_table, io_fail) ==
    IF results = <<>>
    THEN LET saved == save_final_model(server_round, <<>>, metrics_table, io_fail)
         IN  IF server_round = num_rounds
             THEN [Returned(ndarrays_to_parameters(<<>>)) EXCEPT
                      !.weights_file = saved.weights_file,
                      !.dvc_metrics = saved.dvc_metrics,
                      !.dvc_params = saved.dvc_params,
                      !.rolled_back = saved.rolled_back]
             ELSE Returned(None)
    ELSE aggregate_fit_nonempty(context, server_round, results, failures,
                                metrics_table, io_fail)

\* aggregate_fit(self, server_round, results, failures), with the module's
\* context, the fl_round_metrics table the final round reads, and io_fail.
aggregate_fit(context, server_round, results, failures, metrics_table, io_fail) ==
    IF results = <<>> THEN Returned(None)
    ELSE aggregate_fit_nonempty(context, server_round, results, failures,
                                metrics_table, io_fail)

\* ---------------------------------------------------------- aggregate_evaluate
\* Python's None where a float is expected, and a float that is present.
NoValue == <<>>
Some(x) == <<x>>
\* float('inf') and the nan that 0 * inf gives, as fractions without value.
Infinity == [num |-> 1, den |-> 0]
NaN == [num |-> 0, den |-> 0]

\* A (client proxy, EvaluateRes) pair.
EvaluateResult(c, loss, n, metrics) ==
    [client |-> c,
     evaluate_res |-> [loss |-> loss, num_examples |-> n, metrics |-> metrics]]

\* weighted_loss_avg of the base strategy: sum(n_i * loss_i) / sum(n_i) in
\* float arithmetic.  0 * inf is nan and poisons the sum.
weighted_loss_avg(results) ==
    LET total == SumSeq([i \in 1..Len(results) |-> results[i].evaluate_res.num_examples])
        finite == SelectSeq(results, LAMBDA r : r.evaluate_res.loss.den # 0)
        weighted == SumSeq([i \in 1..Len(finite) |->
                               finite[i].evaluate_res.num_examples
                                   * finite[i].evaluate_res.loss.num])
    IN  IF \E i \in 1..Len(results) :
               results[i].evaluate_res.loss.den = 0 /\ results[i].evaluate_res.num_examples = 0
        THEN NaN
        ELSE IF Len(finite) < Len(results) THEN Infinity
        ELSE Frac(weighted, total)

\* super().aggregate_evaluate(server_round, results, failures) of the base
\* strategy, constructed without an evaluate_metrics_aggregation_fn
\* (__init__ neither accepts nor passes one): no results give (None, {}),
\* otherwise the weighted loss and an empty metrics dict; a total example
\* count of zero divides by zero.
super_aggregate_evaluate(results, failures) ==
    IF results = <<>>
    THEN [raised |-> FALSE, loss |-> NoValue, metrics |-> NoMetrics]
    ELSE IF SumSeq([i \in 1..Len(results) |-> results[i].evaluate_res.num_examples]) = 0
    THEN [raised |-> TRUE, loss |-> NoValue, metrics |-> NoMetrics]
    ELSE [raised |-> FALSE, loss |-> Some(weighted_loss_avg(results)), metrics |-> NoMetrics]

(* A variant of aggregate_evaluate whose database block has no except        *)
(* branch: a failing commit leaves the method.                               *)
aggregate_evaluate_no_except(server_round, results, failures, commit_fails) ==
    LET agg == super_aggregate_evaluate(results, failures)
        fl_metric == [round_number |-> server_round, avg_accuracy |-> NoValue,
                      avg_loss |-> agg.loss, num_clients |-> Len(results)]
    IN  [raised |-> agg.raised \/ commit_fails,
         loss |-> IF commit_fails THEN NoValue ELSE agg.loss,
         metrics |-> agg.metrics,
         row |-> IF agg.raised \/ commit_fails THEN <<>> ELSE <<fl_metric>>,
         rolled_back |-> FALSE,
         commit_failed |-> ~agg.raised /\ commit_fails]

\* aggregate_evaluate(self, server_round, results, failures).  commit_fails:
\* db.commit() raises.  row: the FLRoundMetric row that got committed.
aggregate_evaluate(server_round, results, failures, commit_fails) ==
    LET agg == super_aggregate_evaluate(results, failures)
        \* accuracy = aggregated_metrics.get("accuracy")
        accuracy == IF "accuracy" \in DOMAIN agg.metrics
                       THEN Some(agg.metrics.accuracy) ELSE NoValue
        fl_metric == [round_number |-> server_round, avg_accuracy |-> accuracy,
                      avg_loss |-> agg.loss, num_clients |-> Len(results)]
    IN  IF agg.raised
        THEN [raised |-> TRUE, loss |-> NoValue, metrics |-> NoMetrics, row |-> <<>>,
              rolled_back |-> FALSE, commit_failed |-> FALSE]
        ELSE [raised |-> FALSE, loss |-> agg.loss, metrics |-> agg.metrics,
              row |-> IF commit_fails THEN <<>> ELSE <<fl_metric>>,
              rolled_back |-> commit_fails, commit_failed |-> commit_fails]

\* ------------------------------------------------------------------ state
VARIABLES
    context_count,    \* how many TenSEAL contexts (key pairs) get_context has made
    server_context,   \* the key pair of server.py's module-level context
    client_context,   \* per client, the key pair of its fetched public context (0: none)
    pc,               \* where the server's round loop (or a direct call) stands
    server_round,     \* the current round number
    parameters,       \* the global parameters the server holds
    fit_ins,          \* round |-> the FitIns configure_fit built for it, so far
    selected,         \* the clients sampled for the current phase
    results,          \* the results collected in the current phase
    failures,         \* the failures collected in the current phase
    last,             \* what the last strategy call did (see Returned)
    weights_files,    \* round |-> the state_dict in model_round_<round>.pth, or NoFile
    dvc_files,        \* which of dvc_global_metrics.json / dvc_global_params.yaml exist
    model_versions,   \* the model_versions table
    fl_metrics        \* the fl_round_metrics table, in insertion order

vars == <<context_count, server_context, client_context, pc, server_round,
          parameters, fit_ins, selected, results, failures, last,
          weights_files, dvc_files, model_versions, fl_metrics>>

\* A (client proxy, FitRes) pair.
FitResult(c, tensors, tensor_type, n, metrics) ==
    [client |-> c,
     fit_res |-> [parameters |-> [tensors |-> tensors, tensor_type |-> tensor_type],
                  num_examples |-> n, metrics |-> metrics]]

\* State after import of server.py and _setup_database(), before any round:
\* the module-level context is the first one made, the tables and the
\* model_versions directory are empty.
InitCommon ==
    /\ context_count = 1
    /\ server_context = 1
    /\ selected = {}
    /\ last = [op |-> "none"]
    /\ weights_files = [r \in 1..num_rounds |-> NoFile]
    /\ dvc_files = [metrics |-> FALSE, params |-> FALSE]
    /\ model_versions = {}
    /\ fl_metrics = <<>>

\* ------------------------------------------- detect_outliers, called directly
\* Losses in hundredths: 0.1, 0.12, 0.15, 0.5, 10.0, 11.0.
LossValues == {10, 12, 15, 50, 1000, 1100}
\* The two-valued domain of the longer lists: 0.1 and 10.0.
LongLossValues == {10, 1000}

\* Marks, in a list of losses to report, a client that reports none.
Absent == 0 - 1
\* The metrics dict of a fit result with the given loss (Absent: no "loss" key).
LossMetrics(l) == IF l = Absent THEN NoMetrics ELSE [loss |-> l]

\* The result of client c reporting loss l (detect_outliers reads no more of it).
ResultWithLoss(c, l) == FitResult(c, <<>>, "encrypted_ckks", 1, LossMetrics(l))
\* The results list whose i-th client is client i and reports ls[i].
ResultsWithLosses(ls) == [i \in 1..Len(ls) |-> ResultWithLoss(i, ls[i])]

\* Every loss already in the list is of the two-valued domain (or absent).
OnlyLongLosses(rs) ==
    \A i \in 1..Len(rs) :
        "loss" \in DOMAIN rs[i].fit_res.metrics => rs[i].fit_res.metrics.loss \in LongLossValues

InitOutlier ==
    /\ InitCommon
    /\ client_context = <<>>
    /\ pc = "collect"
    /\ server_round = 1
    /\ parameters = None
    /\ fit_ins = <<>>
    /\ failures = <<>>
    /\ results = <<>>

\* One more client's result joins the list: any loss while the list is short,
\* a loss of the two-valued domain up to the long bound.
ReceiveLoss ==
    /\ pc = "collect"
    /\ \E l \in LossValues \cup {Absent} :
          /\ \/ Len(results) < MaxShort
             \/ Len(results) < MaxLong /\ OnlyLongLosses(results)
                   /\ l \in LongLossValues \cup {Absent}
          /\ results' = Append(results, ResultWithLoss(Len(results) + 1, l))
    /\ UNCHANGED <<context_count, server_context, client_context, pc, server_round,
                   parameters, fit_ins, selected, failures, last,
                   weights_files, dvc_files, model_versions, fl_metrics>>

\* strategy.detect_outliers(results)
CallDetectOutliers ==
    /\ pc = "collect"
    /\ last' = [op |-> "detect_outliers", run |-> detect_outliers_run(results)]
    /\ pc' = "returned"
    /\ UNCHANGED <<context_count, server_context, client_context, server_round,
                   parameters, fit_ins, selected, results, failures,
                   weights_files, dvc_files, model_versions, fl_metrics>>

NextOutlier == ReceiveLoss \/ CallDetectOutliers

SpecOutlier == InitOutlier /\ [][NextOutlier]_vars

\* ------------------------------------------------- claims on detect_outliers
\* The losses the clients of results reported, in results order.
ReportedLosses == losses_of(results)
\* Client results[i] reported a loss.
ReportsLoss(i) == "loss" \in DOMAIN results[i].fit_res.metrics
\* The place of results[i]'s loss in the list of reported losses.
LossRank(i) == Len(losses_of(SubSeq(results, 1, i)))
\* results[i] reported a loss whose own |z-score| among the reported losses
\* is above the threshold.
OwnLossIsOutlier(i) ==
    /\ ReportsLoss(i)
    /\ Len(ReportedLosses) >= 2
    /\ ~std_is_zero(ReportedLosses)
    /\ zscore_exceeds(ReportedLosses, LossRank(i))
\* The clients detect_outliers returned, as a set.
ReturnedOutliers == {last.run.ret[k] : k \in 1..Len(last.run.ret)}
DetectOutliersReturned == pc = "returned" /\ last.op = "detect_outliers"

\* C5: for any results list, lists with clients that report no loss included,
\* detect_outliers returns exactly the clients whose own loss has
\* |z-score| > 2.5 among the reported losses, and never a client that
\* reported no loss.
C5_FlagsOwnLoss ==
    DetectOutliersReturned =>
        /\ ReturnedOutliers = {results[i].client : i \in {k \in 1..Len(results) : OwnLossIsOutlier(k)}}
        /\ \A i \in 1..Len(results) : ~ReportsLoss(i) => results[i].client \notin ReturnedOutliers

\* C6: for the reported losses [0.1, 0.12, 0.15, 10.0] detect_outliers flags
\* exactly the client with 10.0, for [0.1, 10.0, 0.12] exactly the client with
\* 10.0, and for [0.1, 10.0, 0.12, 11.0] exactly the clients with 10.0 and 11.0.
C6_SmallGroups ==
    DetectOutliersReturned =>
        /\ results = ResultsWithLosses(<<10, 12, 15, 1000>>) => ReturnedOutliers = {4}
        /\ results = ResultsWithLosses(<<10, 1000, 12>>) => ReturnedOutliers = {2}
        /\ results = ResultsWithLosses(<<10, 1000, 12, 1100>>) => ReturnedOutliers = {2, 4}

\* All reported losses are the same number.
AllLossesEqual ==
    \A i, j \in 1..Len(ReportedLosses) : ReportedLosses[i] = ReportedLosses[j]

\* C7: detect_outliers returns no outlier whenever fewer than 2 clients report
\* a loss or all reported losses are equal, and it never reaches the z-score
\* division with a zero standard deviation.
C7_DegenerateLosses ==
    DetectOutliersReturned =>
        /\ ~last.run.zero_div
        /\ (Len(ReportedLosses) < 2 \/ AllLossesEqual) => last.run.ret = <<>>

\* detect_outliers has returned for three or more equal losses next to a
\* client that reported none.
C7_Witness ==
    /\ DetectOutliersReturned
    /\ Len(ReportedLosses) >= 3
    /\ Len(results) > Len(ReportedLosses)
    /\ AllLossesEqual
    /\ last.run.ret = <<>>

\* The effects of a strategy call on the files and tables.
ApplyEffects(eff) ==
    /\ weights_files' = IF eff.weights_file = NoFile THEN weights_files
                        ELSE [weights_files EXCEPT ![server_round] = eff.weights_file]
    /\ dvc_files' = [metrics |-> dvc_files.metrics \/ eff.dvc_metrics,
                     params |-> dvc_files.params \/ eff.dvc_params]
    /\ model_versions' = model_versions \cup {eff.model_version[k] :
                                                k \in 1..Len(eff.model_version)}

\* The first file operation of the final-round branch that raises.
IoFailures == {"none", "save", "dvc_metrics", "dvc_params"}

\* --------------------------------------------- aggregate_fit, called directly
\* Weight vectors a client holds after local training (before it: <<1, 1, 1>>).
TrainedWeights == {<<1, 4, 2>>, <<4, 1, 3>>}

\* A successful client's update: its weights encrypted under key pair k.
EncryptedUpdate(c, k, w, n, metrics) ==
    FitResult(c, [j \in 1..NumTensors |-> Ciphertext(k, w[j], c, j)],
              "encrypted_ckks", n, metrics)
\* What EncryptedClient.fit returns from its except branch: the plaintext
\* weights of get_parameters, 0 examples and an error entry.
ErrorUpdate(c, w) ==
    FitResult(c, [j \in 1..NumTensors |-> NdArray(w[j], model_shapes[j])],
              "numpy.ndarray", 0, [error |-> "exception"])

\* Tensor lists that differ from the state_dict key order: the two vectors
\* of equal length exchanged, one tensor more at the end, one tensor less.
TensorOrders == {"swapped", "extra", "short"}
order_of(kind) ==
    CASE kind = "swapped" ->
            [j \in 1..NumTensors |-> IF j = NumTensors - 1 THEN NumTensors
                                     ELSE IF j = NumTensors THEN NumTensors - 1 ELSE j]
      [] kind = "extra" -> [j \in 1..(NumTensors + 1) |-> j]
      [] kind = "short" -> [j \in 1..(NumTensors - 1) |-> j]
\* An update of a client that serializes its tensors in the given order: the
\* j-th ciphertext holds the tensor named order[j].
ReorderedUpdate(c, k, w, n, order) ==
    FitResult(c, [j \in 1..Len(order) |->
                     Ciphertext(k, IF order[j] <= Len(w) THEN w[order[j]] ELSE 1,
                                c, order[j])],
              "encrypted_ckks", n, NoMetrics)

\* Kinds of result in a list given to aggregate_fit: an update under the
\* server's key pair with any weights and example count, an update under
\* another key pair, an error result, or an update whose tensor list differs
\* from the state_dict key order.
AggKinds ==
    {[kind |-> "own_key", w |-> w, n |-> n] : w \in TrainedWeights, n \in 0..MaxExamples}
    \cup {[kind |-> "other_key", w |-> <<1, 1, 1>>, n |-> 1],
          [kind |-> "error", w |-> <<1, 1, 1>>, n |-> 0]}
    \cup {[kind |-> o, w |-> <<1, 4, 2>>, n |-> 1] : o \in TensorOrders}

AggResult(i, d) ==
    IF d.kind = "error" THEN ErrorUpdate(i, d.w)
    ELSE IF d.kind \in TensorOrders
    THEN ReorderedUpdate(i, 1, d.w, d.n, order_of(d.kind))
    ELSE EncryptedUpdate(i, IF d.kind = "own_key" THEN 1 ELSE 2, d.w, d.n, NoMetrics)

\* A result of the long lists, where the outlier filter can act: client c
\* reports loss l (0.1 or 10.0); the weights of a client with loss 10.0 differ
\* from all others', and weights and counts vary with the client.
LongAggResult(c, l) ==
    EncryptedUpdate(c, 1,
                    IF l # 10 THEN <<4, 1, 3>> ELSE IF c % 3 = 0 THEN <<1, 1, 1>> ELSE <<1, 4, 2>>,
                    1 + (c % MaxExamples), [loss |-> l])

\* A first result that reports no loss, as EncryptedClient.fit returns it.
SilentFirst == AggResult(1, [kind |-> "own_key", w |-> <<1, 4, 2>>, n |-> 1])

\* Every result already in the list is one of the long lists: each reports a
\* loss, but for a first one that reports none.
OnlyLongResults(rs) ==
    \A i \in 1..Len(rs) :
        "loss" \in DOMAIN rs[i].fit_res.metrics \/ (i = 1 /\ rs[1] = SilentFirst)

InitAgg ==
    /\ InitCommon
    /\ client_context = <<>>
    /\ pc = "collect"
    /\ parameters = None
    /\ fit_ins = <<>>
    /\ server_round \in 1..num_rounds
    /\ failures \in {<<>>, <<"exception">>}
    /\ results = <<>>

\* One more client's result joins the list (an update with another tensor
\* order only as the first or the second result).
ReceiveResult ==
    /\ pc = "collect"
    /\ \/ /\ Len(results) < MaxAggClients
          /\ failures = <<>> \/ Len(results) < 1
          /\ \A i \in 1..Len(results) : "loss" \notin DOMAIN results[i].fit_res.metrics
          /\ \E d \in AggKinds :
                /\ d.kind \in TensorOrders => Len(results) < 2
                /\ results' = Append(results, AggResult(Len(results) + 1, d))
       \/ /\ Len(results) < MaxLong
          /\ failures = <<>>
          /\ server_round \in {1, num_rounds}
          /\ OnlyLongResults(results)
          /\ \E l \in LongLossValues :
                results' = Append(results, LongAggResult(Len(results) + 1, l))
    /\ UNCHANGED <<context_count, server_context, client_context, pc, server_round,
                   parameters, fit_ins, selected, failures, last,
                   weights_files, dvc_files, model_versions, fl_metrics>>

\* strategy.aggregate_fit(server_round, results, failures)
CallAggregateFit ==
    /\ pc = "collect"
    /\ \E io_fail \in (IF server_round = num_rounds THEN IoFailures ELSE {"none"}) :
          LET eff == aggregate_fit(server_context, server_round, results, failures,
                                   fl_metrics, io_fail)
          IN  /\ last' = [op |-> "aggregate_fit", eff |-> eff]
              /\ ApplyEffects(eff)
    /\ pc' = "returned"
    /\ UNCHANGED <<context_count, server_context, client_context, server_round,
                   parameters, fit_ins, selected, results, failures, fl_metrics>>

NextAgg == ReceiveResult \/ CallAggregateFit

SpecAgg == InitAgg /\ [][NextAgg]_vars

\* --------------------------------------------------- claims on aggregate_fit
AggregateFitReturned == pc = "returned" /\ last.op = "aggregate_fit"
\* The results that survive the outlier filter, in results order.
Surviving == filter_results(results, detect_outliers(results))
SurvivingClients == LET S == Surviving IN {S[i].client : i \in 1..Len(S)}
\* Every update of the list S is NumTensors ciphertexts under the key pair of
\* the server's context, in state_dict key order.
UnderServerKey(S) ==
    \A i \in 1..Len(S) :
        /\ Len(S[i].fit_res.parameters.tensors) = NumTensors
        /\ \A j \in 1..NumTensors :
              /\ S[i].fit_res.parameters.tensors[j].kind = "ckks"
              /\ S[i].fit_res.parameters.tensors[j].key = server_context
              /\ S[i].fit_res.parameters.tensors[j].name = j
\* sum(n_i * w_i[j]) and sum(n_i) over the results of S.
WeightedTotal(S, j) ==
    SumSeq([i \in 1..Len(S) |->
               S[i].fit_res.num_examples * S[i].fit_res.parameters.tensors[j].val])
ExampleTotal(S) == SumSeq([i \in 1..Len(S) |-> S[i].fit_res.num_examples])

C2_DecryptsOnlyMean ==
    AggregateFitReturned =>
        \A clients \in {SurvivingClients} :
            \A d \in last.eff.decrypted : d.mean /\ d.src = clients

\* aggregate_fit has decrypted an aggregate of two or more clients' updates.
C2_Witness ==
    /\ AggregateFitReturned
    /\ last.eff.decrypted # {}
    /\ Cardinality(SurvivingClients) >= 2

\* No weights file, DVC file or ledger row exists.
NothingPersisted ==
    /\ \A r \in 1..num_rounds : weights_files[r] = NoFile
    /\ ~dvc_files.metrics /\ ~dvc_files.params
    /\ model_versions = {}
    /\ fl_metrics = <<>>

\* C8: aggregate_fit with an empty results list returns null parameters and
\* an empty metrics map without raising, in any round, the final one
\* included, and decrypts nothing, writes no weights file and no ledger row.
C8_EmptyResults ==
    (AggregateFitReturned /\ results = <<>>) =>
        /\ ~last.eff.raised
        /\ last.eff.parameters = None
        /\ last.eff.metrics = NoMetrics
        /\ last.eff.decrypted = {}
        /\ NothingPersisted

\* aggregate_fit has returned for empty results and a failure in the final round.
C8_Witness ==
    /\ AggregateFitReturned
    /\ results = <<>>
    /\ failures # <<>>
    /\ server_round = num_rounds
    /\ last.eff.parameters = None

\* A result that carries an error tag and no examples.
IsErrorResult(r) == r.fit_res.num_examples = 0 /\ "error" \in DOMAIN r.fit_res.metrics

\* C11: when exactly one client's update (encrypted under the server's key
\* pair, with a positive example count) survives filtering, aggregate_fit
\* succeeds and the decrypted aggregate equals that client's own update.
C11_SingleSurvivor ==
    AggregateFitReturned =>
        \A S \in {Surviving} :
            (Len(S) = 1 /\ UnderServerKey(S) /\ S[1].fit_res.num_examples > 0) =>
                /\ ~last.eff.raised
                /\ Len(last.eff.parameters.tensors) = NumTensors
                /\ \A j \in 1..NumTensors :
                      last.eff.parameters.tensors[j].val
                          = Frac(S[1].fit_res.parameters.tensors[j].val, 1)

\* C12: running the final round creates exactly one ModelVersion, with
\* version_number equal to the round number, and writes exactly one weights
\* file, whichever way the final round goes, a round without usable results
\* included.
C12_FinalRoundVersion ==
    (AggregateFitReturned /\ server_round = num_rounds) =>
        /\ Cardinality(model_versions) = 1
        /\ \A v \in model_versions : v.version_number = num_rounds
        /\ weights_files[num_rounds] # NoFile
        /\ \A r \in 1..(num_rounds - 1) : weights_files[r] = NoFile

\* C14: a fit result with zero examples and an error tag is left out of the
\* aggregation: aggregate_fit does not raise because of it, the aggregate is
\* the weighted mean of the other results, and when no example is left the
\* round aborts instead of dividing by zero.
C14_ErrorResultExcluded ==
    (AggregateFitReturned /\ failures = <<>>
        /\ \E i \in 1..Len(results) : IsErrorResult(results[i])) =>
        \A S \in {SelectSeq(Surviving, LAMBDA r : ~IsErrorResult(r))} :
            UnderServerKey(S) =>
                /\ ~last.eff.raised
                /\ IF ExampleTotal(S) = 0
                      THEN last.eff.parameters = None
                      ELSE /\ Len(last.eff.parameters.tensors) = NumTensors
                           /\ \A j \in 1..NumTensors :
                                 LET v == last.eff.parameters.tensors[j].val
                                 IN  v.num * ExampleTotal(S) = v.den * WeightedTotal(S, j)

\* ------------------------------------- the strategy's methods, called directly
\* Losses (hundredths) and accuracies (percent) a client's evaluate reports.
EvalLosses == {10, 50}
EvalAccuracies == {50, 90}

\* What EncryptedClient.evaluate returns: loss, total and the accuracy on
\* success, (inf, 0, {"error": ...}) from its except branch.
EvalKinds ==
    {[kind |-> "ok", loss |-> l, n |-> n, accuracy |-> a] :
        l \in EvalLosses, n \in 1..MaxExamples, a \in EvalAccuracies}
    \cup {[kind |-> "error", loss |-> 0, n |-> 0, accuracy |-> 0]}

EvalResult(c, d) ==
    IF d.kind = "error"
    THEN EvaluateResult(c, Infinity, 0, [error |-> "exception"])
    ELSE EvaluateResult(c, Frac(d.loss, 1), d.n, [accuracy |-> d.accuracy])

\* The collected list holds fit results only, or evaluate results only.
IsFitList(rs) == \A i \in 1..Len(rs) : "fit_res" \in DOMAIN rs[i]
IsEvalList(rs) == \A i \in 1..Len(rs) : "evaluate_res" \in DOMAIN rs[i]

\* One more client's evaluate result joins the list.
ReceiveEvaluation ==
    /\ pc = "collect"
    /\ failures = <<>>
    /\ IsEvalList(results)
    /\ Len(results) < MaxEvalClients
    /\ \E d \in EvalKinds : results' = Append(results, EvalResult(Len(results) + 1, d))
    /\ UNCHANGED <<context_count, server_context, client_context, pc, server_round,
                   parameters, fit_ins, selected, failures, last,
                   weights_files, dvc_files, model_versions, fl_metrics>>

\* strategy.aggregate_evaluate(server_round, results, failures); the harness
\* repeats the call for the same round as a restarted session would.
CallAggregateEvaluate ==
    /\ \/ pc = "collect"
       \/ pc = "returned" /\ last.op = "aggregate_evaluate"
    /\ IsEvalList(results)
    /\ Len(fl_metrics) < MaxRows
    /\ \E commit_fails \in BOOLEAN :
          LET eff == aggregate_evaluate(server_round, results, failures, commit_fails)
          IN  /\ last' = [op |-> "aggregate_evaluate", eff |-> eff]
              /\ fl_metrics' = fl_metrics \o eff.row
    /\ pc' = "returned"
    /\ UNCHANGED <<context_count, server_context, client_context, server_round,
                   parameters, fit_ins, selected, results, failures,
                   weights_files, dvc_files, model_versions>>

NextStrategy ==
    \/ IsFitList(results) /\ ReceiveResult
    \/ IsFitList(results) /\ CallAggregateFit
    \/ ReceiveEvaluation
    \/ CallAggregateEvaluate

SpecStrategy == InitAgg /\ [][NextStrategy]_vars

\* ------------------------------------------- claims on the strategy's methods
AggregateEvaluateReturned == pc = "returned" /\ last.op = "aggregate_evaluate"

\* C16: a failure of the persistence layer never aborts the round.  In the
\* final-round aggregate_fit a failing file write or ModelVersion creation is
\* caught, leaves no ModelVersion row (a failed creation is rolled back) and
\* the aggregated parameters are returned; in aggregate_evaluate a failing
\* commit is caught and rolled back, leaves no row, and the aggregated loss
\* and metrics are returned.
C16_PersistenceFailureCaught ==
    /\ (AggregateFitReturned /\ server_round = num_rounds /\ failures = <<>>) =>
          \A S \in {Surviving} :
              (S # <<>> /\ ~aggregation_raises(S)
                  /\ (last.eff.weights_file = NoFile \/ last.eff.model_version = <<>>)) =>
                  /\ ~last.eff.raised
                  /\ last.eff.parameters.tensor_type = "numpy.ndarray"
                  /\ Len(last.eff.parameters.tensors)
                        = Len(S[1].fit_res.parameters.tensors)
                  /\ last.eff.model_version = <<>>
                  /\ model_versions = {}
                  /\ last.eff.dvc_params => last.eff.rolled_back
    /\ (AggregateEvaluateReturned /\ last.eff.commit_failed) =>
          /\ ~last.eff.raised
          /\ last.eff.rolled_back
          /\ last.eff.row = <<>>
          /\ results # <<>> => last.eff.loss # NoValue

\* aggregate_evaluate has returned the weighted loss of two results although
\* its commit failed.
C16_Witness ==
    /\ AggregateEvaluateReturned
    /\ last.eff.commit_failed
    /\ Len(results) = 2
    /\ last.eff.loss # NoValue
    /\ fl_metrics = <<>>

\* sum(n_i * x_i) / sum(n_i) over the evaluate results, for x the loss or the
\* accuracy.
EvalTotal == SumSeq([i \in 1..Len(results) |-> results[i].evaluate_res.num_examples])
EvalMeanLoss ==
    Frac(SumSeq([i \in 1..Len(results) |->
                    results[i].evaluate_res.num_examples * results[i].evaluate_res.loss.num]),
         EvalTotal)
EvalMeanAccuracy ==
    Frac(SumSeq([i \in 1..Len(results) |->
                    results[i].evaluate_res.num_examples
                        * results[i].evaluate_res.metrics.accuracy]),
         EvalTotal)
AllEvaluated ==
    /\ results # <<>>
    /\ \A i \in 1..Len(results) : "accuracy" \in DOMAIN results[i].evaluate_res.metrics

\* C17: each invocation of aggregate_evaluate (on results of successful
\* evaluations, with a working database) persists exactly one FLRoundMetric
\* with the round number, the number of results, the example-weighted mean
\* loss and the example-weighted mean accuracy, and returns that loss and
\* accuracy.
C17_RoundMetricRecorded ==
    (AggregateEvaluateReturned /\ AllEvaluated /\ ~last.eff.commit_failed) =>
        /\ ~last.eff.raised
        /\ Len(last.eff.row) = 1
        /\ last.eff.row[1].round_number = server_round
        /\ last.eff.row[1].num_clients = Len(results)
        /\ last.eff.row[1].avg_loss = Some(EvalMeanLoss)
        /\ last.eff.loss = Some(EvalMeanLoss)
        /\ last.eff.row[1].avg_accuracy = Some(EvalMeanAccuracy)
        /\ "accuracy" \in DOMAIN last.eff.metrics
        /\ last.eff.metrics.accuracy = EvalMeanAccuracy

\* C18: after any sequence of calls that record a round metric or create a
\* model version there is at most one FLRoundMetric per round number and at
\* most one ModelVersion per version number: a second record for a round is
\* rejected or updates the first.
C18_OneRecordPerRound ==
    /\ \A i, j \in 1..Len(fl_metrics) :
          fl_metrics[i].round_number = fl_metrics[j].round_number => i = j
    /\ \A v, w \in model_versions : v.version_number = w.version_number => v = w

\* ------------------------------------------------------------ the session
\* One server process (server.py main, driven by Flower's round loop), the
\* context endpoint of the API, and NumClients client processes.
Clients == 1..NumClients

\* encryption_service.get_context(): a new TenSEAL context with a newly
\* generated key pair on every call; count is the number made so far.
get_context(count) == [key |-> count + 1, count |-> count + 1]
\* encryption_service.get_public_context(): the public part of the context a
\* new call of get_context() returns.
get_public_context(count) == get_context(count)

\* initial_parameters: the plaintext state_dict of a new model.
initial_parameters ==
    ndarrays_to_parameters([j \in 1..NumTensors |-> NdArray(Frac(0, 1), model_shapes[j])])

\* configure_fit's FitIns for the given global parameters.
FitIns(params) == [parameters |-> params, config |-> [epochs |-> Epochs]]

\* self.net.load_state_dict(state_dict, strict=True) accepts the parameters:
\* one tensor per state_dict key, each of the key's shape.
loads_strict(params) ==
    /\ Len(params.tensors) = NumTensors
    /\ \A j \in 1..NumTensors : params.tensors[j].shape = model_shapes[j]

(* A variant of updated_parameters that stores whatever aggregate_fit       *)
(* returned, a null result included.                                        *)
updated_parameters_always(params, parameters_prime) ==
    parameters_prime

\* The round loop after aggregate_fit returned parameters_prime: a null
\* result leaves the server's parameters as they are.
updated_parameters(params, parameters_prime) ==
    IF parameters_prime = None THEN params ELSE parameters_prime

Init ==
    /\ InitCommon
    /\ client_context = [c \in Clients |-> 0]
    /\ pc = "configure_fit"
    /\ server_round = 1
    /\ parameters = initial_parameters
    /\ fit_ins = <<>>
    /\ results = <<>>
    /\ failures = <<>>

\* Client process c starts: get_encryption_context() fetches /api/v1/fl/context,
\* which answers with get_public_context(); the client keeps that context for
\* its lifetime and connects to the server.
StartClient(c) ==
    /\ client_context[c] = 0
    /\ pc \notin {"crashed", "done"}
    /\ LET made == get_public_context(context_count)
       IN  /\ context_count' = made.count
           /\ client_context' = [client_context EXCEPT ![c] = made.key]
    /\ UNCHANGED <<server_context, pc, server_round, parameters, fit_ins, selected,
                   results, failures, last, weights_files, dvc_files,
                   model_versions, fl_metrics>>

\* The clients connected to the server.
Connected == {c \in Clients : client_context[c] # 0}

\* configure_fit(server_round, parameters, client_manager): with
\* fraction_fit = 1.0 every connected client is sampled, once at least
\* min_available_clients = 1 is connected; each gets the same FitIns.
ConfigureFit ==
    /\ pc = "configure_fit"
    /\ Connected # {}
    /\ selected' = Connected
    /\ fit_ins' = Append(fit_ins, FitIns(parameters))
    /\ results' = <<>>
    /\ failures' = <<>>
    /\ pc' = "fit"
    /\ UNCHANGED <<context_count, server_context, client_context, server_round,
                   parameters, last, weights_files, dvc_files, model_versions,
                   fl_metrics>>

\* len(self.trainloader.dataset) of client c: fixed for the client's lifetime.
dataset_size(c) == 1 + (c % MaxExamples)

\* EncryptedClient.fit of a sampled client c, and the arrival of its answer.
ClientFit(c) ==
    /\ pc = "fit"
    /\ c \in selected
    /\ selected' = selected \ {c}
    /\ \/ \* the try block completes: weights encrypted under the client's context
          /\ loads_strict(fit_ins[server_round].parameters)
          /\ \E w \in TrainedWeights :
                results' = Append(results,
                                  EncryptedUpdate(c, client_context[c], w,
                                                  dataset_size(c), NoMetrics))
          /\ UNCHANGED failures
       \/ \* an exception inside the try block (always so when the parameters
          \* do not load): the except branch answers
          /\ results' = Append(results, ErrorUpdate(c, <<1, 1, 1>>))
          /\ UNCHANGED failures
       \/ \* mlflow.start_run(...) raises: the with statement encloses the
          \* try block, so the exception leaves fit and the server records a
          \* failure
          /\ failures' = Append(failures, "fit_raised")
          /\ UNCHANGED results
       \/ \* the connection to the client breaks: the server records a failure
          /\ failures' = Append(failures, "connection_lost")
          /\ UNCHANGED results
    /\ UNCHANGED <<context_count, server_context, client_context, pc, server_round,
                   parameters, fit_ins, last, weights_files, dvc_files,
                   model_versions, fl_metrics>>

\* All sampled clients have answered: aggregate_fit(server_round, results,
\* failures) runs; an exception leaving it ends the server process, otherwise
\* the loop keeps the returned parameters unless they are null.
AggregateFit ==
    /\ pc = "fit"
    /\ selected = {}
    /\ \E io_fail \in (IF server_round = num_rounds THEN IoFailures ELSE {"none"}) :
          LET eff == aggregate_fit(server_context, server_round, results, failures,
                                   fl_metrics, io_fail)
          IN  /\ last' = [op |-> "aggregate_fit", eff |-> eff, round |-> server_round]
              /\ ApplyEffects(eff)
              /\ parameters' = IF eff.raised THEN parameters
                               ELSE updated_parameters(parameters, eff.parameters)
              /\ pc' = IF eff.raised THEN "crashed" ELSE "evaluate"
    /\ UNCHANGED <<context_count, server_context, client_context, server_round,
                   fit_ins, selected, results, failures, fl_metrics>>

\* min_evaluate_clients: the default of __init__, which main() leaves as it is.
min_evaluate_clients == 2

\* len of client c's validation set: fixed for the client's lifetime.
valset_size(c) == 1 + ((c + 1) % MaxExamples)

\* EncryptedClient.evaluate of client c on the parameters params: the strict
\* load and the evaluation loop are inside one try, whose except branch
\* answers (inf, 0, {"error": ...}); raises says that the loop hits an
\* exception of its own.
client_evaluate(c, params, raises) ==
    IF loads_strict(params) /\ ~raises
    THEN EvalResult(c, [kind |-> "ok", loss |-> IF c % 2 = 1 THEN 10 ELSE 50,
                        n |-> valset_size(c),
                        accuracy |-> IF c % 2 = 1 THEN 90 ELSE 50])
    ELSE EvalResult(c, [kind |-> "error", loss |-> 0, n |-> 0, accuracy |-> 0])

\* The connected clients, in the order of their identifiers.
ConnectedSeq == SelectSeq([c \in 1..NumClients |-> c], LAMBDA c : c \in Connected)

\* Federated evaluation of the round, on the parameters aggregate_fit left:
\* with fraction_evaluate = 1.0 and min_evaluate_clients = 2 the sample is
\* empty, and the evaluation skipped, unless two clients are connected;
\* otherwise every connected client evaluates and aggregate_evaluate runs on
\* the answers.  An exception leaving aggregate_evaluate ends the server
\* process.  (last keeps the outcome of the round's aggregate_fit.)
EvaluateRound ==
    /\ pc = "evaluate"
    /\ IF Cardinality(Connected) < min_evaluate_clients
          THEN pc' = "round_end" /\ UNCHANGED fl_metrics
          ELSE \E raising \in SUBSET Connected, commit_fails \in BOOLEAN :
                  LET evals == [k \in 1..Len(ConnectedSeq) |->
                                   client_evaluate(ConnectedSeq[k], parameters,
                                                   ConnectedSeq[k] \in raising)]
                      eff == aggregate_evaluate(server_round, evals, <<>>, commit_fails)
                  IN  /\ fl_metrics' = fl_metrics \o eff.row
                      /\ pc' = IF eff.raised THEN "crashed" ELSE "round_end"
    /\ UNCHANGED <<context_count, server_context, client_context, server_round,
                   parameters, fit_ins, selected, results, failures, last,
                   weights_files, dvc_files, model_versions>>

(* A variant of rounds_exhausted under which the loop never stops.           *)
rounds_exhausted_never(current_round) == FALSE

\* ServerConfig(num_rounds=num_rounds): the loop runs rounds 1..num_rounds.
rounds_exhausted(current_round) == current_round >= num_rounds

\* The round ends: after num_rounds rounds the server stops, otherwise the
\* loop goes on to configure the next round.
FinishRound ==
    /\ pc = "round_end"
    /\ IF rounds_exhausted(server_round)
          THEN pc' = "done" /\ UNCHANGED server_round
          ELSE pc' = "configure_fit" /\ server_round' = server_round + 1
    /\ UNCHANGED <<context_count, server_context, client_context, parameters,
                   fit_ins, selected, results, failures, last, weights_files,
                   dvc_files, model_versions, fl_metrics>>

Next ==
    \/ \E c \in Clients : StartClient(c)
    \/ ConfigureFit
    \/ \E c \in Clients : ClientFit(c)
    \/ AggregateFit
    \/ EvaluateRound
    \/ FinishRound

Spec == Init /\ [][Next]_vars

\* The server's loop is one sequential thread: once a round's aggregate_fit
\* has returned it goes on, and it configures a round as soon as a client is
\* connected.
SpecLive ==
    Spec /\ WF_vars(EvaluateRound) /\ WF_vars(FinishRound) /\ WF_vars(ConfigureFit)

\* ----------------------------------------------------- claims on the session
\* C3: every parameter payload a client returns from fit is encrypted and
\* tagged "encrypted_ckks", on every path of EncryptedClient.fit, the
\* exception path included.
C3_PayloadsEncrypted ==
    \A i \in 1..Len(results) :
        LET p == results[i].fit_res.parameters
        IN  /\ p.tensor_type = "encrypted_ckks"
            /\ \A j \in 1..Len(p.tensors) : p.tensors[j].kind = "ckks"

\* C4: throughout a session there is a single encryption context: the public
\* context get_public_context hands to a client has the key pair of the
\* context the server decrypts with, and no further context is ever made.
C4_SingleContext ==
    /\ context_count = 1
    /\ \A c \in Clients : client_context[c] # 0 => client_context[c] = server_context

\* C15: any exception raised while a client performs fit is caught and
\* reported as a result with example count 0 and an "error" entry; no
\* exception of a fit call leaves the client.
C15_FitExceptionsReported ==
    /\ \A k \in 1..Len(failures) : failures[k] # "fit_raised"
    /\ \A i \in 1..Len(results) :
          "error" \in DOMAIN results[i].fit_res.metrics
              => results[i].fit_res.num_examples = 0

\* aggregate_fit of round R returned null parameters, and no later
\* aggregate_fit has run.
Aborted(R) ==
    /\ last.op = "aggregate_fit"
    /\ last.round = R
    /\ ~last.eff.raised
    /\ last.eff.parameters = None
\* Round R + 1 has been configured with the parameters round R distributed.
ConfiguredUnchanged(R) ==
    /\ Len(fit_ins) > R
    /\ fit_ins[R + 1].parameters = fit_ins[R].parameters

\* C10: after a round R < num_rounds whose aggregate_fit returns null, the
\* global parameters are those distributed at the start of round R, the
\* session has neither stopped nor crashed, and round R + 1 is then
\* configured with those same parameters.
C10_AbortCarriesOver ==
    \A R \in 1..(num_rounds - 1) :
        /\ [](Aborted(R) =>
                 /\ parameters = fit_ins[R].parameters
                 /\ pc \notin {"crashed", "done"}
                 /\ Len(fit_ins) > R => fit_ins[R + 1].parameters = fit_ins[R].parameters)
        /\ Aborted(R) ~> ConfiguredUnchanged(R)

\* Round 2 aborted after round 1 had changed the global parameters, and
\* round 3 is configured with the parameters of round 2.
C10_Witness ==
    /\ Aborted(2)
    /\ pc = "fit"
    /\ server_round = 3
    /\ ConfiguredUnchanged(2)
    /\ fit_ins[2].parameters # fit_ins[1].parameters

\* C13: after any sequence of rounds a weights file and a ModelVersion exist
\* only for the final round: no other round writes a file or creates a
\* version, and a ModelVersion once created is never changed or removed.
C13_OnlyFinalRoundPersists ==
    /\ [](/\ \A r \in 1..(num_rounds - 1) : weights_files[r] = NoFile
          /\ \A v \in model_versions : v.version_number = num_rounds)
    /\ [][model_versions \subseteq model_versions']_vars

\* Round 1 has produced an aggregate, which round 2 distributes, and no
\* weights file or ModelVersion exists.
C13_Witness ==
    /\ server_round = 2
    /\ Len(fit_ins) = 2
    /\ fit_ins[2].parameters # fit_ins[1].parameters
    /\ \A r \in 1..num_rounds : weights_files[r] = NoFile
    /\ model_versions = {}

\* C19: every fit instruction of every round carries the global parameters
\* current when the round was configured and a configuration map with the
\* local epoch count 3 and the number of the round being configured.
C19_FitInsCarryRound ==
    \A r \in 1..Len(fit_ins) :
        /\ r = server_round => fit_ins[r].parameters = parameters \/ pc # "fit"
        /\ "epochs" \in DOMAIN fit_ins[r].config
        /\ fit_ins[r].config.epochs = Epochs
        /\ "server_round" \in DOMAIN fit_ins[r].config
        /\ fit_ins[r].config["server_round"] = r

\* C20: every fit result of a client whose training succeeded (an encrypted
\* update with a positive example count and no error entry) carries the
\* client's training loss in its metrics map.
C20_SuccessCarriesLoss ==
    \A i \in 1..Len(results) :
        /\ results[i].fit_res.num_examples > 0
        /\ "error" \notin DOMAIN results[i].fit_res.metrics
        => "loss" \in DOMAIN results[i].fit_res.metrics

\* C21: rounds run one after another with the numbers 1, 2, ..., num_rounds:
\* a round is configured only as round 1 or after aggregate_fit of the round
\* before it has returned, with the parameters that round ended with (its
\* aggregate, or on an abort the parameters it started with), and once round
\* num_rounds is over no round is configured any more.
C21_RoundsInOrder ==
    /\ [](/\ Len(fit_ins) <= num_rounds
          /\ Len(fit_ins) \in {server_round - 1, server_round}
          /\ pc \in {"fit", "evaluate", "round_end", "done", "crashed"}
                => Len(fit_ins) = server_round)
    /\ [][fit_ins' # fit_ins =>
            LET N == Len(fit_ins)
            IN  /\ Len(fit_ins') = N + 1
                /\ SubSeq(fit_ins', 1, N) = fit_ins
                /\ server_round' = N + 1
                /\ pc # "done"
                /\ IF N = 0
                      THEN fit_ins'[1].parameters = initial_parameters
                      ELSE /\ last.op = "aggregate_fit"
                           /\ last.round = N
                           /\ ~last.eff.raised
                           /\ fit_ins'[N + 1].parameters =
                                 IF last.eff.parameters = None
                                    THEN fit_ins[N].parameters
                                    ELSE last.eff.parameters]_vars
    /\ [][pc = "done" => fit_ins' = fit_ins /\ pc' = "done"]_vars

\* The session has ended after three rounds, of which the first produced an
\* aggregate that the second distributed.
C21_Witness ==
    /\ pc = "done"
    /\ Len(fit_ins) = num_rounds
    /\ server_round = num_rounds
    /\ fit_ins[2].parameters # fit_ins[1].parameters

\* C22: when aggregate_fit receives a non-empty failures list together with
\* a non-empty results list it only reports the failures: it raises exactly
\* if it would raise without them, and returns the parameters it would
\* return for the same results with an empty failures list.
C22_FailuresOnlyReported ==
    (AggregateFitReturned /\ failures # <<>> /\ results # <<>>) =>
        \A base \in {aggregate_fit(server_context, server_round, results, <<>>,
                                   fl_metrics, "none")} :
            /\ last.eff.raised = base.raised
            /\ last.eff.parameters = base.parameters
            /\ last.eff.decrypted = base.decrypted

\* The list rs with its results at places i and i + 1 exchanged.
SwapAdjacent(rs, i) ==
    [k \in 1..Len(rs) |-> IF k = i THEN rs[i + 1] ELSE IF k = i + 1 THEN rs[i] ELSE rs[k]]
\* The clients aggregate_fit excludes from the list rs as outliers.
Excluded(rs) == LET out == detect_outliers(rs) IN {out[k] : k \in 1..Len(out)}

\* C23: the outcome of aggregate_fit does not depend on the order of the
\* results: exchanging two neighbours of the list (and so any permutation)
\* changes neither the set of clients excluded as outliers nor the returned
\* aggregate.
C23_OrderIndependent ==
    (AggregateFitReturned /\ failures = <<>>) =>
        \A i \in 1..(Len(results) - 1) :
            \A swapped \in {SwapAdjacent(results, i)} :
                /\ Excluded(swapped) = Excluded(results)
                /\ \A eff \in {aggregate_fit(server_context, server_round, swapped,
                                              failures, fl_metrics, "none")} :
                      /\ eff.raised = last.eff.raised
                      /\ eff.parameters = last.eff.parameters

\* The final round's aggregate_fit has returned an aggregate after writing
\* its files, and no later aggregate_fit has run.
FinalRoundAggregated ==
    /\ last.op = "aggregate_fit"
    /\ last.round = num_rounds
    /\ ~last.eff.raised
    /\ last.eff.parameters # None
    /\ last.eff.dvc_params

\* C24: once the final round R has aggregated, a ModelVersion with
\* version_number R exists whose avg_accuracy and avg_loss are those of the
\* FLRoundMetric recorded for round R in the session.
C24_VersionRecordsRoundMetric ==
    FinalRoundAggregated =>
        \E v \in model_versions :
            /\ v.version_number = num_rounds
            /\ \A k \in 1..Len(fl_metrics) :
                  fl_metrics[k].round_number = num_rounds =>
                      /\ v.avg_accuracy = fl_metrics[k].avg_accuracy
                      /\ v.avg_loss = fl_metrics[k].avg_loss

\* The update r is a list of ciphertexts.
IsEncrypted(r) ==
    \A j \in 1..Len(r.fit_res.parameters.tensors) :
        r.fit_res.parameters.tensors[j].kind = "ckks"
\* The update r lists the model's tensors in state_dict key order.
CanonicalOrder(r) ==
    /\ Len(r.fit_res.parameters.tensors) = NumTensors
    /\ \A j \in 1..NumTensors : r.fit_res.parameters.tensors[j].name = j

\* C25: when an update that takes part in the aggregation lists its tensors
\* in another order, or in another number, than the state_dict key order
\* the accumulator follows, aggregate_fit detects it (it raises or returns no
\* aggregate) instead of combining the tensors place by place.
C25_TensorOrderChecked ==
    (AggregateFitReturned /\ failures = <<>>) =>
        \A S \in {Surviving} :
            (/\ S # <<>>
             /\ \A i \in 1..Len(S) : IsEncrypted(S[i])
             /\ \E i \in 1..Len(S) : ~CanonicalOrder(S[i])) =>
                last.eff.raised \/ last.eff.parameters = None

C27_SomeResultSurvives ==
    (AggregateFitReturned /\ results # <<>>) =>
        /\ Surviving # <<>>
        /\ failures = <<>> => (last.eff.raised \/ last.eff.parameters # None)

\* aggregate_fit has returned an aggregate of the results left after the
\* filter excluded a client for its loss.
C27_Witness ==
    /\ AggregateFitReturned
    /\ detect_outliers(results) # <<>>
    /\ Len(Surviving) = Len(results) - 1
    /\ ~last.eff.raised
    /\ last.eff.parameters # None

\* C28: each tensor of the parameters aggregate_fit returns has the shape of
\* the corresponding tensor of the parameters that were distributed for the
\* round, and the parameters distributed for a round load strictly into the
\* clients' model.
C28_ShapePreserved ==
    /\ (last.op = "aggregate_fit" /\ ~last.eff.raised /\ last.eff.parameters # None) =>
          \A j \in 1..NumTensors :
              last.eff.parameters.tensors[j].shape
                  = fit_ins[last.round].parameters.tensors[j].shape
    /\ \A r \in 1..Len(fit_ins) : loads_strict(fit_ins[r].parameters)

\* C29: the weights file of round R exists if and only if a ModelVersion
\* with version_number R exists, and a call of aggregate_fit that creates no
\* ModelVersion (its ledger write fails or is rejected) writes no weights
\* file.
C29_FileIffVersion ==
    /\ \A r \in 1..num_rounds :
          weights_files[r] # NoFile <=> \E v \in model_versions : v.version_number = r
    /\ AggregateFitReturned =>
          (last.eff.weights_file # NoFile <=> last.eff.model_version # <<>>)

\* C30: every invocation of aggregate_evaluate (with a working database)
\* writes one FLRoundMetric row for the round, also when the results list is
\* empty: then the row has num_clients = 0 and null loss and accuracy.
C30_RowOnEveryInvocation ==
    (AggregateEvaluateReturned /\ ~last.eff.commit_failed) =>
        /\ ~last.eff.raised
        /\ Len(last.eff.row) = 1
        /\ last.eff.row[1].round_number = server_round
        /\ last.eff.row[1].num_clients = Len(results)
        /\ results = <<>> =>
              /\ last.eff.row[1].num_clients = 0
              /\ last.eff.row[1].avg_loss = NoValue
              /\ last.eff.row[1].avg_accuracy = NoValue

====
